---- MODULE Spec2Model ----
(***************************************************************************)
(* A model of pyweather.py: the command-line entry point main and the      *)
(* functions it calls (parse_dates, fetch_weather, get_weather_emoji,      *)
(* pad_string).                                                            *)
(*                                                                         *)
(* Text is a sequence of one-character strings.  A character outside       *)
(* ASCII is written by its code point, "U+00B0".  A Python value is a      *)
(* tagged record: PyStr(text), PyNum(n) or PyNone.  A dictionary field is  *)
(* <<>> when the key is absent and <<value>> when it is present.           *)
(***************************************************************************)
EXTENDS Integers, Sequences, FiniteSets, TLC

VARIABLES
    pc,          \* position of the run: the next statement of main, or "exit"
    args_date,   \* args.date, the token given to -d
    api_key,     \* os.environ.get("VISUAL_CROSSING_API_KEY"): <<>> unset, else <<text>>
    start_date,  \* <<>> before parse_dates returned, else <<y, m, d>>
    end_date,
    response,    \* what requests.get produced, [kind |-> "none"] before the call
    table,       \* the rows appended so far
    out,         \* what was printed on standard output, in order
    stderr,      \* the interpreter's traceback of an uncaught exception
    exit_code,   \* <<>> while running, <<code>> once the process has exited
    events,      \* history: the environment read and the HTTP requests issued
    s,           \* pad_string's argument s       (unit specification)
    width,       \* pad_string's argument width   (unit specification)
    condition,   \* get_weather_emoji's argument  (unit specification)
    ret          \* the value the unit call returned, <<>> before it

vars == <<pc, args_date, api_key, start_date, end_date, response, table, out,
          stderr, exit_code, events, s, width, condition, ret>>

unitVars == <<s, width, condition, ret>>

-----------------------------------------------------------------------------
(* Bounds of the model. *)

MaxDays == 2        \* longest "days" list the provider returns
MaxStrLen == 2      \* longest string given to pad_string in SpecPad
MaxWidth == 3       \* largest target width given to pad_string in SpecPad
MaxWords == 3       \* most vocabulary words in a condition text in SpecEmoji

-----------------------------------------------------------------------------
(* Python values and text helpers. *)

PyStr(text) == [t |-> "str", v |-> text]
PyNum(n) == [t |-> "num", v |-> n]
PyNone == [t |-> "None", v |-> <<>>]
TypeError == [t |-> "TypeError", v |-> <<>>]

Max(a, b) == IF a >= b THEN a ELSE b

At(str, i) == IF i \in 1..Len(str) THEN str[i] ELSE ""

Digits == <<"0", "1", "2", "3", "4", "5", "6", "7", "8", "9">>

IsDigit(c) == \E i \in 1..Len(Digits) : Digits[i] = c

DigitVal(c) == (CHOOSE i \in 1..Len(Digits) : Digits[i] = c) - 1

NonZeroDigit(c) == IsDigit(c) /\ c # "0"

RECURSIVE Spaces(_)
Spaces(n) == IF n <= 0 THEN <<>> ELSE <<" ">> \o Spaces(n - 1)

RECURSIVE Decimal(_)
\* str(n) for a non-negative integer
Decimal(n) ==
    IF n < 10 THEN <<Digits[n + 1]>>
    ELSE Decimal(n \div 10) \o <<Digits[(n % 10) + 1]>>

\* n written with at least k digits, as "%04d" and "%02d" write it
ZeroPad(n, k) == LET d == Decimal(n) IN [i \in 1..(k - Len(d)) |-> "0"] \o d

\* str(date): date.isoformat()
IsoFormat(d) ==
    ZeroPad(d[1], 4) \o <<"-">> \o ZeroPad(d[2], 2) \o <<"-">> \o ZeroPad(d[3], 2)

\* str(value) as an f-string field formats it
Format(value) ==
    IF value.t = "str" THEN value.v
    ELSE IF value.t = "num" THEN Decimal(value.v)
    ELSE <<"N", "o", "n", "e">>

\* dict.get(key, default) on a field that is <<>> (absent) or <<value>>
Get(field, default) == IF field = <<>> THEN default ELSE field[1]

RECURSIVE IndexOf(_, _, _)
\* the first position >= i of character c in str, 0 when there is none
IndexOf(str, c, i) ==
    IF i > Len(str) THEN 0
    ELSE IF str[i] = c THEN i
    ELSE IndexOf(str, c, i + 1)

RECURSIVE Split(_, _)
\* str.split(sep) for a one-character separator
Split(str, sep) ==
    LET k == IndexOf(str, sep, 1) IN
    IF k = 0 THEN <<str>>
    ELSE <<SubSeq(str, 1, k - 1)>> \o Split(SubSeq(str, k + 1, Len(str)), sep)

\* needle in str (substring containment)
Contains(str, needle) ==
    \E i \in 1..(Len(str) - Len(needle) + 1) :
        SubSeq(str, i, i + Len(needle) - 1) = needle

-----------------------------------------------------------------------------
(* datetime.datetime.strptime(text, "%Y-%m-%d").date()                      *)
(* The format compiles to the regular expression                           *)
(*   (\d\d\d\d)-(1[0-2]|0[1-9]|[1-9])-(3[01]|[12]\d|0[1-9]|[1-9]| [1-9])    *)
(* matched at the start of the text; text left over after the match is    *)
(* an error, and so is a date the calendar does not have.                  *)

YearOk(str) == (\A i \in 1..4 : IsDigit(At(str, i))) /\ At(str, 5) = "-"

\* characters the month group takes at position i, given that "-" must follow
MonthLen(str, i) ==
    IF /\ \/ At(str, i) = "1" /\ At(str, i + 1) \in {"0", "1", "2"}
          \/ At(str, i) = "0" /\ NonZeroDigit(At(str, i + 1))
       /\ At(str, i + 2) = "-"
    THEN 2
    ELSE IF NonZeroDigit(At(str, i)) /\ At(str, i + 1) = "-" THEN 1
    ELSE 0

\* characters the day group takes at position i: the first alternative that matches
DayLen(str, i) ==
    IF At(str, i) = "3" /\ At(str, i + 1) \in {"0", "1"} THEN 2
    ELSE IF At(str, i) \in {"1", "2"} /\ IsDigit(At(str, i + 1)) THEN 2
    ELSE IF At(str, i) = "0" /\ NonZeroDigit(At(str, i + 1)) THEN 2
    ELSE IF NonZeroDigit(At(str, i)) THEN 1
    ELSE IF At(str, i) = " " /\ NonZeroDigit(At(str, i + 1)) THEN 2
    ELSE 0

RECURSIVE IntOf(_)
\* int(text) of a run of digits, a leading space skipped
IntOf(str) ==
    IF str = <<>> THEN 0
    ELSE IF str[Len(str)] = " " THEN IntOf(SubSeq(str, 1, Len(str) - 1))
    ELSE 10 * IntOf(SubSeq(str, 1, Len(str) - 1)) + DigitVal(str[Len(str)])

IsLeap(y) == (y % 4 = 0) /\ ((y % 100 # 0) \/ (y % 400 = 0))

DaysInMonth(y, m) ==
    IF m = 2 THEN (IF IsLeap(y) THEN 29 ELSE 28)
    ELSE IF m \in {4, 6, 9, 11} THEN 30
    ELSE 31

\* [ok |-> TRUE, date |-> <<y, m, d>>] or [ok |-> FALSE, err |-> kind, text |-> quoted]
strptime(str) ==
    LET ml == MonthLen(str, 6)
        ds == 6 + ml + 1
        dl == DayLen(str, ds)
        y == IntOf(SubSeq(str, 1, 4))
        m == IntOf(SubSeq(str, 6, 6 + ml - 1))
        d == IntOf(SubSeq(str, ds, ds + dl - 1))
    IN  IF ~YearOk(str) \/ ml = 0 \/ dl = 0
        THEN [ok |-> FALSE, err |-> "does not match format", text |-> str]
        ELSE IF ds + dl - 1 < Len(str)
        THEN [ok |-> FALSE, err |-> "unconverted data remains",
              text |-> SubSeq(str, ds + dl, Len(str))]
        ELSE IF y = 0 \/ d > DaysInMonth(y, m)
        THEN [ok |-> FALSE, err |-> "out of range", text |-> <<>>]
        ELSE [ok |-> TRUE, date |-> <<y, m, d>>]

\* date.__gt__
DateGT(a, b) ==
    \/ a[1] > b[1]
    \/ a[1] = b[1] /\ a[2] > b[2]
    \/ a[1] = b[1] /\ a[2] = b[2] /\ a[3] > b[3]

-----------------------------------------------------------------------------
(* parse_dates: [kind |-> "return", start, end] or                          *)
(* [kind |-> "exit", code, msg], msg being the line printed before exit.   *)

ParseError(e) ==
    [kind |-> "exit", code |-> 1,
     msg |-> [line |-> "Error parsing date(s)", cause |-> e.err, text |-> e.text]]

OrderError ==
    [ok |-> FALSE, err |-> "Start date must be before or equal to end date.",
     text |-> <<>>]

UnpackError == [ok |-> FALSE, err |-> "too many values to unpack", text |-> <<>>]

\* parse_dates without the check of line 26
parse_dates_unchecked(date_str) ==
    LET parts == Split(date_str, ":")
        single == strptime(date_str)
        first == strptime(parts[1])
        second == strptime(parts[2])
    IN  IF IndexOf(date_str, ":", 1) # 0
        THEN IF Len(parts) # 2 THEN ParseError(UnpackError)
             ELSE IF ~first.ok THEN ParseError(first)
             ELSE IF ~second.ok THEN ParseError(second)
             ELSE [kind |-> "return", start |-> first.date, end |-> second.date]
        ELSE IF ~single.ok THEN ParseError(single)
             ELSE [kind |-> "return", start |-> single.date, end |-> single.date]

\* parse_dates with ">=" for ">" on line 26
parse_dates_strict_order(date_str) ==
    LET r == parse_dates_unchecked(date_str) IN
    IF r.kind = "return" /\ ~DateGT(r.end, r.start) THEN ParseError(OrderError)
    ELSE r

parse_dates(date_str) ==
    LET parts == Split(date_str, ":")
        single == strptime(date_str)
        first == strptime(parts[1])
        second == strptime(parts[2])
        finish(a, b) ==
            IF DateGT(a, b) THEN ParseError(OrderError)
            ELSE [kind |-> "return", start |-> a, end |-> b]
    IN  IF IndexOf(date_str, ":", 1) # 0
        THEN IF Len(parts) # 2 THEN ParseError(UnpackError)
             ELSE IF ~first.ok THEN ParseError(first)
             ELSE IF ~second.ok THEN ParseError(second)
             ELSE finish(first.date, second.date)
        ELSE IF ~single.ok THEN ParseError(single)
             ELSE finish(single.date, single.date)

-----------------------------------------------------------------------------
(* wcwidth.wcswidth and pad_string.                                         *)
(* wcwidth(c) is -1 for a control character, 0 for a combining or          *)
(* zero-width character, 2 for an East Asian wide character, 1 otherwise.  *)
(* wcswidth(text) adds the widths and returns -1 as soon as one character  *)
(* has width -1.  It raises TypeError for a value that is not text.        *)

ControlChars == {"U+0009", "U+000A", "U+001B", "U+007F"}
ZeroWidthChars == {"U+0000", "U+0301", "U+200B", "U+FE0F"}
WideChars == {"U+26C5", "U+1F308", "U+1F4CD", "U+4E2D"}

wcwidth(c) ==
    IF c \in ControlChars THEN -1
    ELSE IF c \in ZeroWidthChars THEN 0
    ELSE IF c \in WideChars THEN 2
    ELSE 1

RECURSIVE wcswidth_from(_, _, _)
wcswidth_from(text, i, acc) ==
    IF i > Len(text) THEN acc
    ELSE IF wcwidth(text[i]) < 0 THEN -1
    ELSE wcswidth_from(text, i + 1, acc + wcwidth(text[i]))

wcswidth(value) ==
    IF value.t # "str" THEN TypeError ELSE PyNum(wcswidth_from(value.v, 1, 0))

pad_string(value, w) ==
    LET visual_len == wcswidth(value) IN
    IF visual_len.t = "TypeError" THEN TypeError
    ELSE LET padding == Max(0, w - visual_len.v)
         IN  PyStr(value.v \o Spaces(padding))

-----------------------------------------------------------------------------
(* get_weather_emoji *)

UpperCase == <<"A", "B", "C", "D", "E", "F", "G", "H", "I", "J", "K", "L", "M",
               "N", "O", "P", "Q", "R", "S", "T", "U", "V", "W", "X", "Y", "Z">>

LowerCase == <<"a", "b", "c", "d", "e", "f", "g", "h", "i", "j", "k", "l", "m",
               "n", "o", "p", "q", "r", "s", "t", "u", "v", "w", "x", "y", "z">>

LowerChar(c) ==
    IF \E i \in 1..Len(UpperCase) : UpperCase[i] = c
    THEN LowerCase[CHOOSE i \in 1..Len(UpperCase) : UpperCase[i] = c]
    ELSE c

\* str.lower()
lower(text) == [i \in 1..Len(text) |-> LowerChar(text[i])]

kw_clear == <<"c", "l", "e", "a", "r">>
kw_sun == <<"s", "u", "n">>
kw_partly == <<"p", "a", "r", "t", "l", "y">>
kw_cloud == <<"c", "l", "o", "u", "d">>
kw_rain == <<"r", "a", "i", "n">>
kw_snow == <<"s", "n", "o", "w">>
kw_storm == <<"s", "t", "o", "r", "m">>
kw_thunder == <<"t", "h", "u", "n", "d", "e", "r">>
kw_fog == <<"f", "o", "g">>

SunEmoji == <<"U+2600", "U+FE0F">>
PartlyEmoji == <<"U+26C5">>
RainEmoji == <<"U+1F327", "U+FE0F">>
SnowEmoji == <<"U+2744", "U+FE0F">>
StormEmoji == <<"U+26C8", "U+FE0F">>
FogEmoji == <<"U+1F32B", "U+FE0F">>
RainbowEmoji == <<"U+1F308">>

\* get_weather_emoji with the rain rule tested before the cloud rule
get_weather_emoji_rain_first(text) ==
    LET c == lower(text) IN
    IF Contains(c, kw_clear) \/ Contains(c, kw_sun) THEN SunEmoji
    ELSE IF Contains(c, kw_rain) THEN RainEmoji
    ELSE IF Contains(c, kw_partly) \/ Contains(c, kw_cloud) THEN PartlyEmoji
    ELSE IF Contains(c, kw_snow) THEN SnowEmoji
    ELSE IF Contains(c, kw_storm) \/ Contains(c, kw_thunder) THEN StormEmoji
    ELSE IF Contains(c, kw_fog) THEN FogEmoji
    ELSE RainbowEmoji

get_weather_emoji(text) ==
    LET c == lower(text) IN
    IF Contains(c, kw_clear) \/ Contains(c, kw_sun) THEN SunEmoji
    ELSE IF Contains(c, kw_partly) \/ Contains(c, kw_cloud) THEN PartlyEmoji
    ELSE IF Contains(c, kw_rain) THEN RainEmoji
    ELSE IF Contains(c, kw_snow) THEN SnowEmoji
    ELSE IF Contains(c, kw_storm) \/ Contains(c, kw_thunder) THEN StormEmoji
    ELSE IF Contains(c, kw_fog) THEN FogEmoji
    ELSE RainbowEmoji

-----------------------------------------------------------------------------
(* The inputs of a run: the -d token, the environment, the provider.        *)

D_0601 == <<"2", "0", "2", "4", "-", "0", "6", "-", "0", "1">>
D_0605 == <<"2", "0", "2", "4", "-", "0", "6", "-", "0", "5">>
D_6_1 == <<"2", "0", "2", "4", "-", "6", "-", "1">>
D_0230 == <<"2", "0", "2", "4", "-", "0", "2", "-", "3", "0">>
D_US == <<"0", "6", "-", "0", "1", "-", "2", "0", "2", "4">>
D_0601x == <<"2", "0", "2", "4", "-", "0", "6", "-", "0", "1", "x">>

DateParts == {D_0601, D_0605, D_6_1, D_0230, D_US, D_0601x, <<>>}

DateTokens ==
    DateParts
    \cup {a \o <<":">> \o b : a, b \in DateParts}
    \cup {D_0601 \o <<":">> \o D_0605 \o <<":">> \o D_0605}

KeyText == <<"k", "e", "y">>

ApiKeys == {<<>>, <<(<<>>)>>, <<KeyText>>}

Rain == <<"R", "a", "i", "n">>
RainCloud == <<"R", "a", "i", "n", ",", " ", "C", "l", "o", "u", "d", "s">>

DayRecords ==
    [datetime : {<<>>, <<PyStr(D_0601)>>},
     tempmax : {<<>>},
     tempmin : {<<PyNum(18)>>},
     precipprob : {<<>>},
     windspeed : {<<PyNum(7)>>},
     conditions : {<<>>, <<Rain>>, <<RainCloud>>}]

DayLists == UNION {[1..n -> DayRecords] : n \in 0..MaxDays}

\* a JSON body is [json |-> TRUE, days |-> <<>> (no "days" key) or <<list>>]
JsonBodies == {[json |-> TRUE, days |-> d] : d \in {<<>>} \cup {<<l>> : l \in DayLists}}

NotJson == [json |-> FALSE, days |-> <<>>]

Responses ==
    {[kind |-> "transport", status |-> 0, body |-> NotJson]}
    \cup {[kind |-> "http", status |-> st, body |-> NotJson] : st \in {200, 401, 500}}
    \cup {[kind |-> "http", status |-> 200, body |-> b] : b \in JsonBodies}

NoResponse == [kind |-> "none", status |-> 0, body |-> NotJson]

-----------------------------------------------------------------------------
(* main, from the statement after parser.parse_args().                      *)

Init ==
    /\ pc = "parse_dates"
    /\ args_date \in DateTokens
    /\ api_key \in ApiKeys
    /\ start_date = <<>>
    /\ end_date = <<>>
    /\ response = NoResponse
    /\ table = <<>>
    /\ out = <<>>
    /\ stderr = <<>>
    /\ exit_code = <<>>
    /\ events = <<>>
    /\ s = <<>>
    /\ width = 0
    /\ condition = <<>>
    /\ ret = <<>>

\* print(line); sys.exit(code)
PrintAndExit(line, code) ==
    /\ out' = Append(out, line)
    /\ exit_code' = <<code>>
    /\ pc' = "exit"

\* an exception no handler catches: traceback on stderr, exit status 1
Uncaught(exc) ==
    /\ stderr' = Append(stderr, exc)
    /\ exit_code' = <<1>>
    /\ pc' = "exit"

\* start_date, end_date = parse_dates(args.date)
ParseDates ==
    /\ pc = "parse_dates"
    /\ events' = Append(events, [op |-> "parse_dates"])
    /\ LET r == parse_dates(args_date) IN
       IF r.kind = "return"
       THEN /\ start_date' = r.start
            /\ end_date' = r.end
            /\ pc' = "getenv"
            /\ UNCHANGED <<out, exit_code>>
       ELSE /\ PrintAndExit([kind |-> "diagnostic", msg |-> r.msg], r.code)
            /\ UNCHANGED <<start_date, end_date>>
    /\ UNCHANGED <<args_date, api_key, response, table, stderr, unitVars>>

MissingKeyMsg ==
    [line |-> "Please set the VISUAL_CROSSING_API_KEY environment variable",
     cause |-> "", text |-> <<>>]

\* api_key = os.environ.get(...); if not api_key: print, exit
ReadApiKey ==
    /\ pc = "getenv"
    /\ events' = Append(events, [op |-> "getenv"])
    /\ IF api_key = <<>> \/ api_key = <<(<<>>)>>
       THEN PrintAndExit([kind |-> "diagnostic", msg |-> MissingKeyMsg], 1)
       ELSE /\ pc' = "fetch_weather"
            /\ UNCHANGED <<out, exit_code>>
    /\ UNCHANGED <<args_date, api_key, start_date, end_date, response, table,
                   stderr, unitVars>>

\* the request fetch_weather builds: location, the two dates, the key
Request ==
    [op |-> "GET", location |-> "city,nation", start |-> IsoFormat(start_date),
     end |-> IsoFormat(end_date), key |-> api_key[1]]

FetchMsg(line, st) == [line |-> line, cause |-> "", text |-> Decimal(st)]

\* fetch_weather without the sys.exit(1) of line 43: a non-200 answer is returned
FetchWeather_no_exit ==
    /\ pc = "fetch_weather"
    /\ events' = Append(events, Request)
    /\ \E r \in Responses :
        /\ response' = r
        /\ \/ /\ r.kind = "transport"
              /\ PrintAndExit([kind |-> "diagnostic",
                               msg |-> FetchMsg("Request failed", 0)], 1)
           \/ /\ r.kind = "http" /\ r.status # 200
              /\ out' = Append(out, [kind |-> "diagnostic",
                          msg |-> FetchMsg("Error fetching weather data", r.status)])
              /\ pc' = "banner"
              /\ UNCHANGED exit_code
           \/ /\ r.kind = "http" /\ r.status = 200 /\ ~r.body.json
              /\ PrintAndExit([kind |-> "diagnostic",
                               msg |-> FetchMsg("Request failed", 0)], 1)
           \/ /\ r.kind = "http" /\ r.status = 200 /\ r.body.json
              /\ pc' = "banner"
              /\ UNCHANGED <<out, exit_code>>
    /\ UNCHANGED <<args_date, api_key, start_date, end_date, table, stderr, unitVars>>

\* fetch_weather that issues the request again after a transport failure
FetchWeather_retry ==
    /\ pc = "fetch_weather"
    /\ \E r \in Responses :
        /\ response' = r
        /\ \/ /\ r.kind = "transport"
              /\ events' = Append(Append(events, Request), Request)
              /\ PrintAndExit([kind |-> "diagnostic",
                               msg |-> FetchMsg("Request failed", 0)], 1)
           \/ /\ r.kind = "http" /\ ~(r.status = 200 /\ r.body.json)
              /\ events' = Append(events, Request)
              /\ PrintAndExit([kind |-> "diagnostic",
                               msg |-> FetchMsg("Error fetching weather data", r.status)], 1)
           \/ /\ r.kind = "http" /\ r.status = 200 /\ r.body.json
              /\ events' = Append(events, Request)
              /\ pc' = "banner"
              /\ UNCHANGED <<out, exit_code>>
    /\ UNCHANGED <<args_date, api_key, start_date, end_date, table, stderr, unitVars>>

\* data = fetch_weather(...)
FetchWeather ==
    /\ pc = "fetch_weather"
    /\ events' = Append(events, Request)
    /\ \E r \in Responses :
        /\ response' = r
        /\ \/ /\ r.kind = "transport"
              /\ PrintAndExit([kind |-> "diagnostic",
                               msg |-> FetchMsg("Request failed", 0)], 1)
              /\ UNCHANGED stderr
           \/ /\ r.kind = "http" /\ r.status # 200
              /\ PrintAndExit([kind |-> "diagnostic",
                               msg |-> FetchMsg("Error fetching weather data", r.status)], 1)
              /\ UNCHANGED stderr
           \/ \* response.json() raises JSONDecodeError, a RequestException
              \* since requests 2.27
              /\ r.kind = "http" /\ r.status = 200 /\ ~r.body.json
              /\ PrintAndExit([kind |-> "diagnostic",
                               msg |-> FetchMsg("Request failed", 0)], 1)
              /\ UNCHANGED stderr
           \/ \* before requests 2.27 it is a ValueError, which nothing catches
              /\ r.kind = "http" /\ r.status = 200 /\ ~r.body.json
              /\ Uncaught("JSONDecodeError")
              /\ UNCHANGED out
           \/ /\ r.kind = "http" /\ r.status = 200 /\ r.body.json
              /\ pc' = "banner"
              /\ UNCHANGED <<out, stderr, exit_code>>
    /\ UNCHANGED <<args_date, api_key, start_date, end_date, table, unitVars>>

\* print(f"... {start_date} to {end_date}")
PrintBanner ==
    /\ pc = "banner"
    /\ out' = Append(out, [kind |-> "banner", start |-> IsoFormat(start_date),
                           end |-> IsoFormat(end_date)])
    /\ pc' = "days"
    /\ UNCHANGED <<args_date, api_key, start_date, end_date, response, table,
                   stderr, exit_code, events, unitVars>>

\* days = data.get("days", [])
Days == Get(response.body.days, <<>>)

\* main without the "if not days" branch: an empty list goes on to tabulate
CheckDays_no_branch ==
    /\ pc = "days"
    /\ pc' = IF Days = <<>> THEN "tabulate" ELSE "row"
    /\ UNCHANGED <<args_date, api_key, start_date, end_date, response, table,
                   out, stderr, exit_code, events, unitVars>>

\* if not days: print(...); sys.exit(0)
CheckDays ==
    /\ pc = "days"
    /\ IF Days = <<>>
       THEN PrintAndExit([kind |-> "no data"], 0)
       ELSE /\ pc' = "row"
            /\ UNCHANGED <<out, exit_code>>
    /\ UNCHANGED <<args_date, api_key, start_date, end_date, response, table,
                   stderr, events, unitVars>>

NA == PyStr(<<"N", "/", "A">>)
Unknown == <<"U", "n", "k", "n", "o", "w", "n">>
Degree == "U+00B0"

\* the five cells of one row, each pad_string's result (or TypeError)
Row(day) ==
    LET date == Get(day.datetime, PyNone)
        tempmax == Get(day.tempmax, NA)
        tempmin == Get(day.tempmin, NA)
        precip == Get(day.precipprob, NA)
        wind == Get(day.windspeed, NA)
        cond == Get(day.conditions, Unknown)
        emoji == get_weather_emoji(cond)
    IN  <<pad_string(date, 10),
          pad_string(PyStr(emoji \o <<" ">> \o cond), 20),
          pad_string(PyStr(Format(tempmax) \o <<Degree, " ", "/", " ">>
                           \o Format(tempmin) \o <<Degree>>), 15),
          pad_string(PyStr(Format(precip) \o <<"%">>), 8),
          pad_string(PyStr(Format(wind) \o <<" ", "k", "m", "/", "h">>), 12)>>

\* one iteration of "for day in days"
BuildRow ==
    /\ pc = "row"
    /\ LET row == Row(Days[Len(table) + 1]) IN
       IF \E i \in 1..Len(row) : row[i].t = "TypeError"
       THEN /\ Uncaught("TypeError")
            /\ UNCHANGED table
       ELSE /\ table' = Append(table, [i \in 1..Len(row) |-> row[i].v])
            /\ pc' = IF Len(table) + 1 = Len(Days) THEN "tabulate" ELSE "row"
            /\ UNCHANGED <<stderr, exit_code>>
    /\ UNCHANGED <<args_date, api_key, start_date, end_date, response, out,
                   events, unitVars>>

\* print(tabulate(table, ...)); main returns
PrintTable ==
    /\ pc = "tabulate"
    /\ out' = Append(out, [kind |-> "table", rows |-> table])
    /\ exit_code' = <<0>>
    /\ pc' = "exit"
    /\ UNCHANGED <<args_date, api_key, start_date, end_date, response, table,
                   stderr, events, unitVars>>

Next ==
    \/ ParseDates
    \/ ReadApiKey
    \/ FetchWeather
    \/ PrintBanner
    \/ CheckDays
    \/ BuildRow
    \/ PrintTable

Spec == Init /\ [][Next]_vars

-----------------------------------------------------------------------------
(* pad_string called on its own: every string over a small alphabet with    *)
(* one character of each width class, and every target width.              *)

PadAlphabet == {"a", "U+4E2D", "U+0301", "U+0009"}

PadInputs == UNION {[1..n -> PadAlphabet] : n \in 0..MaxStrLen}

Idle ==
    /\ args_date = <<>>
    /\ api_key = <<>>
    /\ start_date = <<>>
    /\ end_date = <<>>
    /\ response = NoResponse
    /\ table = <<>>
    /\ out = <<>>
    /\ stderr = <<>>
    /\ exit_code = <<>>
    /\ events = <<>>

InitPad ==
    /\ Idle
    /\ pc = "pad_string"
    /\ s \in PadInputs
    /\ width \in 0..MaxWidth
    /\ condition = <<>>
    /\ ret = <<>>

CallPadString ==
    /\ pc = "pad_string"
    /\ ret' = <<pad_string(PyStr(s), width)>>
    /\ pc' = "returned"
    /\ UNCHANGED <<args_date, api_key, start_date, end_date, response, table,
                   out, stderr, exit_code, events, s, width, condition>>

NextPad == CallPadString

SpecPad == InitPad /\ [][NextPad]_vars

-----------------------------------------------------------------------------
(* get_weather_emoji called on its own: every text of up to MaxWords words  *)
(* of a vocabulary that holds each keyword, in mixed case, and fragments   *)
(* that form a keyword only across a word boundary.                        *)

Vocabulary ==
    {<<"C", "l", "e", "a", "r">>, <<"S", "U", "N">>, <<"P", "a", "r", "t", "l", "y">>,
     <<"c", "l", "o", "u", "d">>, <<"R", "a", "i", "n">>, <<"s", "n", "o", "w">>,
     <<"S", "t", "o", "r", "m">>, <<"t", "h", "u", "n", "d", "e", "r">>,
     <<"F", "o", "g">>, <<"s">>, <<"u", "n">>}

RECURSIVE Texts(_)
Texts(n) ==
    IF n = 0 THEN {<<>>}
    ELSE Texts(n - 1) \cup {t \o w : t \in Texts(n - 1), w \in Vocabulary}

InitEmoji ==
    /\ Idle
    /\ pc = "get_weather_emoji"
    /\ condition \in Texts(MaxWords)
    /\ s = <<>>
    /\ width = 0
    /\ ret = <<>>

CallGetWeatherEmoji ==
    /\ pc = "get_weather_emoji"
    /\ ret' = <<get_weather_emoji(condition)>>
    /\ pc' = "returned"
    /\ UNCHANGED <<args_date, api_key, start_date, end_date, response, table,
                   out, stderr, exit_code, events, s, width, condition>>

NextEmoji == CallGetWeatherEmoji

SpecEmoji == InitEmoji /\ [][NextEmoji]_vars

-----------------------------------------------------------------------------
(* Vocabulary of the properties. *)

HasKind(seq, k) == \E i \in 1..Len(seq) : seq[i].kind = k

\* a date as one number, so that dates compare as numbers do
Ordinal(d) == 10000 * d[1] + 100 * d[2] + d[3]

HasSeparator == IndexOf(args_date, ":", 1) # 0

\* the substrings of the token that are parsed as dates
TokenParts == Split(args_date, ":")

\* four digits, "-", two digits, "-", two digits, and nothing else
StrictFormat(str) ==
    /\ Len(str) = 10
    /\ \A i \in {1, 2, 3, 4, 6, 7, 9, 10} : IsDigit(str[i])
    /\ str[5] = "-" /\ str[8] = "-"

\* the date a strictly formatted text denotes, read off its digit positions
StrictDate(str) ==
    <<1000 * DigitVal(str[1]) + 100 * DigitVal(str[2]) + 10 * DigitVal(str[3])
        + DigitVal(str[4]),
      10 * DigitVal(str[6]) + DigitVal(str[7]),
      10 * DigitVal(str[9]) + DigitVal(str[10])>>

DateFails == parse_dates(args_date).kind = "exit"

KeyMissing == api_key = <<>> \/ api_key = <<(<<>>)>>

Answered200 == response.kind = "http" /\ response.status = 200 /\ response.body.json

ProviderFails ==
    \/ response.kind = "transport"
    \/ response.kind = "http" /\ response.status # 200

GetCount == Cardinality({i \in 1..Len(events) : events[i].op = "GET"})

IsPrefix(a, b) == Len(a) <= Len(b) /\ SubSeq(b, 1, Len(a)) = a

DateDiagnostic(e) ==
    e.kind = "diagnostic" /\ e.msg.line = "Error parsing date(s)"

-----------------------------------------------------------------------------
(* C1: every run ends with exactly one exit code: 0 when the provider       *)
(* answered 200 with a JSON body (days non-empty, empty or absent), and    *)
(* non-zero when the date token does not parse, the credential is missing, *)
(* the provider answers non-200 or the request fails in transport.         *)
C1_ExitCodeByOutcome ==
    pc = "exit" =>
        /\ Len(exit_code) = 1
        /\ Answered200 => exit_code = <<0>>
        /\ (DateFails \/ KeyMissing \/ ProviderFails) => exit_code[1] # 0

(* C2: whenever parse_dates returns, start <= end; without a separator both *)
(* endpoints are the one parsed date; for "A:B" start is the date parsed   *)
(* from A and end the date parsed from B.                                  *)
C2_ParseDatesReturnsOrderedPair ==
    start_date # <<>> =>
        /\ Ordinal(start_date) <= Ordinal(end_date)
        /\ ~HasSeparator =>
              /\ start_date = end_date
              /\ start_date = strptime(args_date).date
              /\ StrictFormat(args_date) => start_date = StrictDate(args_date)
        /\ HasSeparator =>
              /\ Len(TokenParts) = 2
              /\ start_date = strptime(TokenParts[1]).date
              /\ end_date = strptime(TokenParts[2]).date
              /\ StrictFormat(TokenParts[1]) => start_date = StrictDate(TokenParts[1])
              /\ StrictFormat(TokenParts[2]) => end_date = StrictDate(TokenParts[2])

C2_Witness ==
    /\ args_date = D_0601 \o <<":">> \o D_0605
    /\ start_date = <<2024, 6, 1>>
    /\ end_date = <<2024, 6, 5>>

(* C3: if a part of the token (the whole token when there is no separator)  *)
(* is not in the strict YYYY-MM-DD format, parse_dates prints a diagnostic *)
(* naming the offending text, exits non-zero and returns no pair.          *)
C3_NonStrictPartFails ==
    (pc # "parse_dates" /\ \E i \in 1..Len(TokenParts) : ~StrictFormat(TokenParts[i])) =>
        /\ pc = "exit"
        /\ start_date = <<>>
        /\ Len(exit_code) = 1 /\ exit_code[1] # 0
        /\ Len(out) = 1 /\ DateDiagnostic(out[1])
        /\ \E i \in 1..Len(TokenParts) :
              ~StrictFormat(TokenParts[i]) /\ out[1].msg.text = TokenParts[i]

(* C4: for a token "A:B" whose two parts both parse as dates, parse_dates   *)
(* fails with the order error (diagnostic, non-zero exit, no pair) exactly *)
(* when A is strictly after B; equal endpoints are accepted; and a format  *)
(* failure never prints the order error's message.                         *)
C4_OrderErrorIffStartAfterEnd ==
    LET orderFailure ==
            /\ pc = "exit"
            /\ start_date = <<>>
            /\ Len(out) = 1 /\ DateDiagnostic(out[1])
            /\ out[1].msg.cause = "Start date must be before or equal to end date."
            /\ Len(exit_code) = 1 /\ exit_code[1] # 0
    IN  pc # "parse_dates" =>
            /\ (HasSeparator /\ Len(TokenParts) = 2 /\ strptime(TokenParts[1]).ok
                    /\ strptime(TokenParts[2]).ok) =>
                  LET a == strptime(TokenParts[1]).date
                      b == strptime(TokenParts[2]).date
                  IN  /\ orderFailure <=> Ordinal(a) > Ordinal(b)
                      /\ Ordinal(a) <= Ordinal(b) =>
                            /\ start_date = a /\ end_date = b
                               /\ \A i \in 1..Len(out) : ~DateDiagnostic(out[i])
            /\ (\E i \in 1..Len(TokenParts) : ~strptime(TokenParts[i]).ok) => ~orderFailure

C4_Witness ==
    /\ args_date = D_0605 \o <<":">> \o D_0601
    /\ pc = "exit"
    /\ out[1].msg.cause = "Start date must be before or equal to end date."
    /\ exit_code = <<1>>

C4_WitnessEqual ==
    /\ args_date = D_0605 \o <<":">> \o D_0605
    /\ start_date = <<2024, 6, 5>>
    /\ end_date = <<2024, 6, 5>>

-----------------------------------------------------------------------------
(* The rule list of get_weather_emoji as data, for the properties.          *)

Rules ==
    <<[kws |-> {kw_clear, kw_sun}, sym |-> SunEmoji],
      [kws |-> {kw_partly, kw_cloud}, sym |-> PartlyEmoji],
      [kws |-> {kw_rain}, sym |-> RainEmoji],
      [kws |-> {kw_snow}, sym |-> SnowEmoji],
      [kws |-> {kw_storm, kw_thunder}, sym |-> StormEmoji],
      [kws |-> {kw_fog}, sym |-> FogEmoji]>>

\* kw occurs in text, letter case ignored
Occurs(text, kw) ==
    \E i \in 1..(Len(text) - Len(kw) + 1) :
        \A j \in 1..Len(kw) : LowerChar(text[i + j - 1]) = kw[j]

RuleMatches(text, i) == \E kw \in Rules[i].kws : Occurs(text, kw)

FirstMatchSymbol(text) ==
    IF \E i \in 1..Len(Rules) : RuleMatches(text, i)
    THEN Rules[CHOOSE i \in 1..Len(Rules) :
                   /\ RuleMatches(text, i)
                   /\ \A k \in 1..(i - 1) : ~RuleMatches(text, k)].sym
    ELSE RainbowEmoji

EmojiReturned == pc = "returned" /\ ret # <<>>

(* C5 as written: get_weather_emoji returns the symbol of the first rule    *)
(* whose keyword occurs in the text, case ignored, the fallback when none  *)
(* does; every text with "cloud" and "rain" yields the partly-cloudy       *)
(* symbol and every text with "rain" and "thunder" the rain symbol.        *)
C5_FirstMatchAndExamples ==
    EmojiReturned =>
        /\ ret[1] = FirstMatchSymbol(condition)
        /\ (Occurs(condition, kw_cloud) /\ Occurs(condition, kw_rain)) =>
              ret[1] = PartlyEmoji
        /\ (Occurs(condition, kw_rain) /\ Occurs(condition, kw_thunder)) =>
              ret[1] = RainEmoji

(* C5 amended: the first-match rule as above; a text with "cloud" and       *)
(* "rain" yields the partly-cloudy symbol when rule 1 does not match, and  *)
(* a text with "rain" and "thunder" the rain symbol when neither rule 1    *)
(* nor rule 2 matches.                                                     *)
C5_FirstMatchWins ==
    EmojiReturned =>
        /\ ret[1] = FirstMatchSymbol(condition)
        /\ (Occurs(condition, kw_cloud) /\ Occurs(condition, kw_rain)
                /\ ~RuleMatches(condition, 1)) =>
              ret[1] = PartlyEmoji
        /\ (Occurs(condition, kw_rain) /\ Occurs(condition, kw_thunder)
                /\ ~RuleMatches(condition, 1) /\ ~RuleMatches(condition, 2)) =>
              ret[1] = RainEmoji

C5_Witness ==
    /\ EmojiReturned
    /\ Occurs(condition, kw_cloud) /\ Occurs(condition, kw_rain)
    /\ Occurs(condition, kw_thunder)
    /\ ret[1] = PartlyEmoji

(* C6: pad_string(s, w) returns s followed by exactly                       *)
(* max(0, w - display_width(s)) spaces, display_width(s) being a sum of    *)
(* one width in {0, 1, 2} per character; for single-width characters the   *)
(* padded length is max(len(s), w).                                        *)
C6_PadsToDisplayWidth ==
    (pc = "returned" /\ ret # <<>> /\ condition = <<>>) =>
        /\ ret[1].t = "str"
        /\ \E perChar \in [1..Len(s) -> {0, 1, 2}] :
              LET RECURSIVE Sum(_)
                  Sum(i) == IF i = 0 THEN 0 ELSE perChar[i] + Sum(i - 1)
              IN  ret[1].v = s \o Spaces(Max(0, width - Sum(Len(s))))
        /\ (\A i \in 1..Len(s) : s[i] = "a") => Len(ret[1].v) = Max(Len(s), width)

(* C7: when the provider answers 200 and "days" is absent or empty, the     *)
(* run prints the banner and the "no data" notice, prints no grid, and     *)
(* exits 0; the notice appears in no run that ends in a failure.           *)
C7_NoDataIsSuccess ==
    pc = "exit" =>
        /\ (Answered200 /\ Get(response.body.days, <<>>) = <<>>) =>
              /\ Len(out) = 2
              /\ out[1].kind = "banner"
              /\ out[2].kind = "no data"
              /\ ~HasKind(out, "table")
              /\ exit_code = <<0>>
        /\ HasKind(out, "no data") =>
              /\ exit_code = <<0>>
              /\ ~(DateFails \/ KeyMissing \/ ProviderFails)
              /\ stderr = <<>>

C7_Witness ==
    /\ pc = "exit"
    /\ Answered200
    /\ response.body.days = <<(<<>>)>>
    /\ HasKind(out, "no data")

C7_WitnessAbsent ==
    /\ pc = "exit"
    /\ Answered200
    /\ response.body.days = <<>>
    /\ HasKind(out, "no data")

(* C8: in a run that fails on the date token, the credential, a non-200     *)
(* answer or the transport, the diagnostic is the only output: no banner,  *)
(* no table, and nothing after the diagnostic.                             *)
C8_FailurePrintsOnlyDiagnostic ==
    /\ (pc = "exit" /\ (DateFails \/ KeyMissing \/ ProviderFails)) =>
          /\ Len(out) = 1
          /\ out[1].kind = "diagnostic"
          /\ Len(exit_code) = 1 /\ exit_code[1] # 0
    /\ HasKind(out, "diagnostic") => (pc = "exit" /\ out[Len(out)].kind = "diagnostic")

C8_Witness ==
    /\ pc = "exit"
    /\ response.kind = "http" /\ response.status = 500
    /\ Len(out) = 1 /\ out[1].kind = "diagnostic"

(* C9: for a non-empty "days" list the run builds one row per record, in    *)
(* order, each of 5 cells padded to the widths 10, 20, 15, 8 and 12,       *)
(* prints the grid and exits 0.                                            *)
C9_OneRowPerRecord ==
    (pc = "exit" /\ Answered200 /\ Get(response.body.days, <<>>) # <<>>) =>
        LET days == Get(response.body.days, <<>>)
            widths == <<10, 20, 15, 8, 12>>
        IN  /\ exit_code = <<0>>
            /\ Len(table) = Len(days)
            /\ \A k \in 1..Len(table) :
                  /\ Len(table[k]) = 5
                  /\ \A c \in 1..5 : wcswidth(PyStr(table[k][c])).v >= widths[c]
            /\ Len(out) = 2 /\ out[2].kind = "table" /\ out[2].rows = table

(* C10: at most one HTTP request per run, issued only after parse_dates     *)
(* returned and a non-empty credential was read, in that order; a failed   *)
(* request is not reissued; with both an invalid date token and a missing  *)
(* credential the date error is the one reported.                          *)
C10_SingleRequestAfterParseAndKey ==
    /\ GetCount <= 1
    /\ IsPrefix([i \in 1..Len(events) |-> events[i].op],
                <<"parse_dates", "getenv", "GET">>)
    /\ GetCount = 1 =>
          /\ ~DateFails /\ ~KeyMissing /\ start_date # <<>>
          /\ events[Len(events)].key = api_key[1]
          /\ events[Len(events)].start = IsoFormat(start_date)
          /\ events[Len(events)].end = IsoFormat(end_date)
    /\ (pc = "exit" /\ ProviderFails) => GetCount = 1
    /\ (pc = "exit" /\ DateFails /\ KeyMissing) =>
          (Len(out) = 1 /\ DateDiagnostic(out[1]) /\ GetCount = 0)

C10_Witness ==
    /\ pc = "exit"
    /\ response.kind = "transport"
    /\ GetCount = 1
    /\ exit_code = <<1>>

C10_WitnessBothInvalid ==
    /\ pc = "exit"
    /\ DateFails /\ KeyMissing
    /\ DateDiagnostic(out[1])

====
